---- MODULE Spec2Model ----
(***************************************************************************)
(* Degree-Planner requirement-evaluation engine (src/api/requirements.py,  *)
(* src/api/requirements_eval.py): the code normalizer, the rule catalog,   *)
(* the user catalog builder, the ALL_OF / ONE_OF / N_OF section evaluators *)
(* and the major orchestrator.                                             *)
(*                                                                         *)
(* Python values are modelled as follows.                                  *)
(*   str        a TLA+ string; characters are read with SubSeq             *)
(*   list       a sequence                                                 *)
(*   set        a set (list(set) has no defined order: kept as a set)      *)
(*   dict       a record or a function; d.get(k, default) is Get           *)
(*   None       an absent record field (the code treats a missing key and  *)
(*              a None value of "credits" alike: .get / "or 0")            *)
(*   float      credit values are whole numbers here, float(3) = 3.0       *)
(***************************************************************************)
EXTENDS Integers, Sequences, FiniteSets, TLC

(***************************************************************************)
(* Python built-ins used by the normalizer                                 *)
(***************************************************************************)
LowerLetters == "abcdefghijklmnopqrstuvwxyz"

UpperLetters == "ABCDEFGHIJKLMNOPQRSTUVWXYZ"

CharAt(s, i) == SubSeq(s, i, i)

\* dict.get(key, default)
Get(d, key, default) == IF key \in DOMAIN d THEN d[key] ELSE default

\* the characters str.split() and str.strip() treat as whitespace
Whitespace == {" ", "\t"}

\* the upper-case form of each lower-case letter, and the converse
UpperOf ==
    [c \in {CharAt(LowerLetters, k) : k \in 1..Len(LowerLetters)} |->
        CharAt(UpperLetters, CHOOSE k \in 1..Len(LowerLetters) : CharAt(LowerLetters, k) = c)]

LowerOf ==
    [c \in {CharAt(UpperLetters, k) : k \in 1..Len(UpperLetters)} |->
        CharAt(LowerLetters, CHOOSE k \in 1..Len(UpperLetters) : CharAt(UpperLetters, k) = c)]

UpperChar(c) == Get(UpperOf, c, c)

LowerChar(c) == Get(LowerOf, c, c)

\* str.upper()
RECURSIVE str_upper(_)
str_upper(s) ==
    IF Len(s) = 0 THEN ""
    ELSE UpperChar(CharAt(s, 1)) \o str_upper(SubSeq(s, 2, Len(s)))

\* str.strip(): drop leading and trailing whitespace
RECURSIVE str_lstrip(_)
str_lstrip(s) ==
    IF Len(s) > 0 /\ CharAt(s, 1) \in Whitespace
    THEN str_lstrip(SubSeq(s, 2, Len(s)))
    ELSE s

RECURSIVE str_rstrip(_)
str_rstrip(s) ==
    IF Len(s) > 0 /\ CharAt(s, Len(s)) \in Whitespace
    THEN str_rstrip(SubSeq(s, 1, Len(s) - 1))
    ELSE s

str_strip(s) == str_rstrip(str_lstrip(s))

\* str.split(): the maximal runs of non-whitespace characters, in order
RECURSIVE SplitScan(_, _, _, _)
SplitScan(s, k, word, words) ==
    IF k > Len(s)
    THEN IF word = "" THEN words ELSE Append(words, word)
    ELSE IF CharAt(s, k) \in Whitespace
         THEN SplitScan(s, k + 1, "", IF word = "" THEN words ELSE Append(words, word))
         ELSE SplitScan(s, k + 1, word \o CharAt(s, k), words)

str_split(s) == SplitScan(s, 1, "", << >>)

\* sep.join(words)
RECURSIVE str_join(_, _)
str_join(sep, words) ==
    IF Len(words) = 0 THEN ""
    ELSE IF Len(words) = 1 THEN words[1]
    ELSE words[1] \o sep \o str_join(sep, Tail(words))

(***************************************************************************)
(* Rule catalog: requirements.py                                           *)
(***************************************************************************)
\* a cross-listing table whose target is itself a cross-listed spelling
ALIASES_chained ==
       ("COMP SCI/ECE 354" :> "COMP SCI/ECE 252")
    @@ ("COMP SCI/ECE 252" :> "COMP SCI 252")
    @@ ("STAT/MATH 309" :> "STAT 309")

ALIASES ==
       ("COMP SCI/ECE 354" :> "COMP SCI 354")
    @@ ("COMP SCI/ECE 252" :> "COMP SCI 252")
    @@ ("STAT/MATH 309" :> "STAT 309")
    @@ ("COMP SCI/I SY E/MATH 425" :> "COMP SCI 425")
    @@ ("COMP SCI/ECE/I SY E 524" :> "COMP SCI 524")
    @@ ("COMP SCI/I SY E/MATH/STAT 525" :> "COMP SCI 525")
    @@ ("COMP SCI/DS 579" :> "COMP SCI 579")
    @@ ("COMP SCI/ECE/ME 539" :> "COMP SCI 539")
    @@ ("COMP SCI/ECE 533" :> "COMP SCI 533")
    @@ ("COMP SCI/ECE 552" :> "COMP SCI 552")
    @@ ("COMP SCI/STAT 471" :> "COMP SCI 471")
    @@ ("COMP SCI/MATH/STAT 475" :> "COMP SCI 475")

Sec_basic_cs ==
    [id |-> "basic_cs", title |-> "Basic Computer Sciences", type |-> "ALL_OF",
     items |-> <<
        [code |-> "MATH/COMP SCI 240", credits |-> 3],
        [code |-> "COMP SCI/E C E 252", credits |-> 3],
        [code |-> "COMP SCI 300", credits |-> 3],
        [code |-> "COMP SCI/E C E 354", credits |-> 3],
        [code |-> "COMP SCI 400", credits |-> 3] >>]

Sec_basic_calculus ==
    [id |-> "basic_calculus", title |-> "Basic Calculus (sequence)", type |-> "ONE_OF",
     options |-> <<
        [type |-> "ALL_OF", items |-> <<
            [code |-> "MATH 221", credits |-> 5],
            [code |-> "MATH 222", credits |-> 4] >>],
        [type |-> "ALL_OF", items |-> <<
            [code |-> "MATH 171", credits |-> 5],
            [code |-> "MATH 217", credits |-> 4],
            [code |-> "MATH 222", credits |-> 4] >>] >>]

Sec_linear_algebra ==
    [id |-> "linear_algebra", title |-> "Additional Mathematics (Linear Algebra)", type |-> "ONE_OF",
     options |-> <<
        [type |-> "COURSE", code |-> "MATH 320", credits |-> 3],
        [type |-> "COURSE", code |-> "MATH 340", credits |-> 3],
        [type |-> "COURSE", code |-> "MATH 345", credits |-> 4],
        [type |-> "COURSE", code |-> "MATH 341", credits |-> 3],
        [type |-> "COURSE", code |-> "MATH 375", credits |-> 5] >>]

Sec_prob_or_stats ==
    [id |-> "prob_or_stats", title |-> "Probability or Statistics", type |-> "ONE_OF",
     options |-> <<
        [type |-> "COURSE", code |-> "STAT/MATH 309", credits |-> 3],
        [type |-> "COURSE", code |-> "STAT 311", credits |-> 3],
        [type |-> "COURSE", code |-> "STAT 324", credits |-> 3],
        [type |-> "COURSE", code |-> "MATH 331", credits |-> 3],
        [type |-> "COURSE", code |-> "STAT 333", credits |-> 3],
        [type |-> "COURSE", code |-> "STAT 340", credits |-> 4],
        [type |-> "COURSE", code |-> "STAT 371", credits |-> 3],
        [type |-> "COURSE", code |-> "STAT/MATH 431", credits |-> 3],
        [type |-> "COURSE", code |-> "MATH 531", credits |-> 3] >>]

Sec_theory ==
    [id |-> "theory", title |-> "Advanced CS: Theory of Computer Science", type |-> "ONE_OF",
     options |-> <<
        [type |-> "COURSE", code |-> "COMP SCI 577", credits |-> 3],
        [type |-> "COURSE", code |-> "COMP SCI 520", credits |-> 3] >>]

Sec_software_hardware ==
    [id |-> "software_hardware", title |-> "Advanced CS: Software & Hardware (pick two)", type |-> "N_OF",
     n |-> 2,
     items |-> <<
        [code |-> "COMP SCI 407", credits |-> 3],
        [code |-> "COMP SCI/E C E 506", credits |-> 3],
        [code |-> "COMP SCI 536", credits |-> 3],
        [code |-> "COMP SCI 538", credits |-> 3],
        [code |-> "COMP SCI 537", credits |-> 3],
        [code |-> "COMP SCI 542", credits |-> 3],
        [code |-> "COMP SCI 544", credits |-> 3],
        [code |-> "COMP SCI/E C E 552", credits |-> 3],
        [code |-> "COMP SCI 557", credits |-> 3],
        [code |-> "COMP SCI 564", credits |-> 3],
        [code |-> "COMP SCI 640", credits |-> 3],
        [code |-> "COMP SCI 642", credits |-> 3] >>]

Sec_applications ==
    [id |-> "applications", title |-> "Applications (pick one)", type |-> "ONE_OF",
     options |-> <<
        [type |-> "COURSE", code |-> "COMP SCI 412", credits |-> 3],
        [type |-> "COURSE", code |-> "COMP SCI/I SY E/MATH 425", credits |-> 3],
        [type |-> "COURSE", code |-> "COMP SCI/MATH 513", credits |-> 3],
        [type |-> "COURSE", code |-> "COMP SCI/MATH 514", credits |-> 3],
        [type |-> "COURSE", code |-> "COMP SCI/E C E/I SY E 524", credits |-> 3],
        [type |-> "COURSE", code |-> "COMP SCI/I SY E/MATH/STAT 525", credits |-> 3],
        [type |-> "COURSE", code |-> "COMP SCI 534", credits |-> 3],
        [type |-> "COURSE", code |-> "COMP SCI 540", credits |-> 3],
        [type |-> "COURSE", code |-> "COMP SCI 541", credits |-> 3],
        [type |-> "COURSE", code |-> "COMP SCI 559", credits |-> 3],
        [type |-> "COURSE", code |-> "COMP SCI 565", credits |-> 3],
        [type |-> "COURSE", code |-> "COMP SCI 566", credits |-> 3],
        [type |-> "COURSE", code |-> "COMP SCI 570", credits |-> 3],
        [type |-> "COURSE", code |-> "COMP SCI 571", credits |-> 3] >>]

Sec_electives ==
    [id |-> "electives", title |-> "Electives (pick two)", type |-> "N_OF",
     n |-> 2,
     items |-> <<
        [code |-> "COMP SCI 407", credits |-> 3],
        [code |-> "COMP SCI 412", credits |-> 3],
        [code |-> "COMP SCI/E C E/MATH 435", credits |-> 3],
        [code |-> "COMP SCI/STAT 471", credits |-> 3],
        [code |-> "COMP SCI/MATH/STAT 475", credits |-> 3],
        [code |-> "COMP SCI/E C E 506", credits |-> 3],
        [code |-> "COMP SCI/M E/E C E 532", credits |-> 3],
        [code |-> "COMP SCI/E C E 533", credits |-> 3],
        [code |-> "COMP SCI 534", credits |-> 3],
        [code |-> "COMP SCI 536", credits |-> 3],
        [code |-> "COMP SCI 537", credits |-> 3],
        [code |-> "COMP SCI 538", credits |-> 3],
        [code |-> "COMP SCI/E C E/M E 539", credits |-> 3],
        [code |-> "COMP SCI 540", credits |-> 3],
        [code |-> "COMP SCI 541", credits |-> 3],
        [code |-> "COMP SCI 542", credits |-> 3],
        [code |-> "COMP SCI 544", credits |-> 3],
        [code |-> "COMP SCI/E C E 552", credits |-> 3],
        [code |-> "COMP SCI 557", credits |-> 3],
        [code |-> "COMP SCI 564", credits |-> 3],
        [code |-> "COMP SCI 565", credits |-> 3],
        [code |-> "COMP SCI 566", credits |-> 3],
        [code |-> "COMP SCI 579", credits |-> 3],
        [code |-> "COMP SCI 639", credits |-> 3],
        [code |-> "COMP SCI 640", credits |-> 3],
        [code |-> "COMP SCI 642", credits |-> 3] >>]

MAJOR_REQUIREMENTS ==
    "CS_LS" :> [id |-> "Computer Science (L&S)", college |-> "L&S_BS", total_major_credits |-> 48,
        sections |-> << Sec_basic_cs,
                        Sec_basic_calculus,
                        Sec_linear_algebra,
                        Sec_prob_or_stats,
                        Sec_theory,
                        Sec_software_hardware,
                        Sec_applications,
                        Sec_electives >>]

DEGREE_REQUIREMENTS ==
    "L&S_BS" :> [id |-> "L&S_BS", total_degree_credits |-> 120]
(***************************************************************************)
(* Code normalizer: requirements_eval.py                                   *)
(***************************************************************************)
\* " ".join(s.split())
_squash_spaces(s) == str_join(" ", str_split(s))

\* a normalizer that upper-cases and squeezes but skips the alias lookup
normalize_code_no_alias(code) ==
    IF code = "" THEN "" ELSE _squash_spaces(str_strip(str_upper(code)))

\* ALIASES.get(upper, upper)
alias_of(upper) == Get(ALIASES, upper, upper)

\* the body of normalize_code
normalize_code_of(code) ==
    IF code = "" THEN ""
    ELSE alias_of(_squash_spaces(str_strip(str_upper(code))))

\* the spellings the rule catalog uses
SeqRange(list) == {list[k] : k \in 1..Len(list)}

OptionSpellings(opt) ==
    IF opt.type = "COURSE" THEN {opt.code}
    ELSE {it.code : it \in SeqRange(opt.items)}

SectionSpellings(section) ==
    IF "items" \in DOMAIN section
    THEN {it.code : it \in SeqRange(section.items)}
    ELSE UNION {OptionSpellings(opt) : opt \in SeqRange(section.options)}

CatalogSpellings ==
    UNION {SectionSpellings(section) :
              section \in UNION {SeqRange(MAJOR_REQUIREMENTS[m].sections) :
                                    m \in DOMAIN MAJOR_REQUIREMENTS}}

\* normalize_code of every catalog spelling, computed once: the catalog is
\* static and normalize_code reads nothing but its argument and ALIASES
NormalizedCatalog == [code \in CatalogSpellings |-> normalize_code_of(code)]

normalize_code(code) ==
    IF code \in DOMAIN NormalizedCatalog
    THEN NormalizedCatalog[code]
    ELSE normalize_code_of(code)

(***************************************************************************)
(* Section evaluators: requirements_eval.py                                *)
(* A value a Python function computes once and then reads several times    *)
(* (taken, missing, present, best, ...) is handed on as an operator        *)
(* argument.                                                               *)
(***************************************************************************)
\* {"code": code, "credits": item.get("credits")}
course_dict(code, item) ==
    IF "credits" \in DOMAIN item
    THEN [code |-> code, credits |-> item.credits]
    ELSE [code |-> code]

\* the dict an evaluator builds for an item: its code is normalized
CourseRef(item) == course_dict(normalize_code(item.code), item)

\* the dicts of a list of items, in declaration order
CourseRefs(items) == [k \in 1..Len(items) |-> CourseRef(items[k])]

\* "if code in user_codes: taken.append(..)": the dicts the user has
taken_of(refs, user_codes) == SelectSeq(refs, LAMBDA t : t.code \in user_codes)

\* "else: missing.append(..)": the dicts the user does not have
missing_of(refs, user_codes) == SelectSeq(refs, LAMBDA t : t.code \notin user_codes)

CodesOf(courses) == {courses[k].code : k \in 1..Len(courses)}

\* an ALL_OF credit rule that prefers the item's declared credits
all_of_credits_item_first(t, user_credits) ==
    Get(t, "credits", Get(user_credits, t.code, 0))

\* eval_all_of: the user's credits if the code has an entry, else the
\* item's declared credits, else 0
all_of_credits(t, user_credits) ==
    IF t.code \in DOMAIN user_credits
    THEN user_credits[t.code]
    ELSE Get(t, "credits", 0)

\* user_credits.get(course_code, t.get("credits", 0) or 0)
course_credits(t, user_credits) ==
    Get(user_credits, t.code, Get(t, "credits", 0))

\* the loops "credits_earned = 0; for t in ...: credits_earned += ..."
RECURSIVE SumSeq(_)
SumSeq(numbers) ==
    IF Len(numbers) = 0 THEN 0 ELSE Head(numbers) + SumSeq(Tail(numbers))

AllOfCreditsEarned(taken, user_credits) ==
    SumSeq([k \in 1..Len(taken) |-> all_of_credits(taken[k], user_credits)])

CreditsEarned(courses, user_credits) ==
    SumSeq([k \in 1..Len(courses) |-> course_credits(courses[k], user_credits)])

\* a status rule that looks at taken before missing
all_of_status_taken_first(taken, missing) ==
    IF Len(taken) = 0 THEN "missing"
    ELSE IF Len(missing) = 0 THEN "complete"
    ELSE "in_progress"

all_of_status(taken, missing) ==
    IF Len(missing) = 0 THEN "complete"
    ELSE IF Len(taken) # 0 THEN "in_progress"
    ELSE "missing"

\* the status, the credit sum and the returned dict of eval_all_of
all_of_result(taken, missing, user_credits) ==
    [status         |-> all_of_status(taken, missing),
     taken          |-> taken,
     missing        |-> missing,
     credited_codes |-> CodesOf(taken),
     credits_earned |-> AllOfCreditsEarned(taken, user_credits)]

\* the item loop of eval_all_of
all_of_partition(refs, user_codes, user_credits) ==
    all_of_result(taken_of(refs, user_codes), missing_of(refs, user_codes),
                  user_credits)

eval_all_of(section, user_codes, user_credits) ==
    all_of_partition(CourseRefs(Get(section, "items", << >>)), user_codes,
                     user_credits)

\* the tuple _score_all_of returns
score_tuple(taken, missing) ==
    [match_count |-> Len(taken),
     taken       |-> taken,
     missing     |-> missing,
     credited    |-> CodesOf(taken)]

score_partition(refs, user_codes) ==
    score_tuple(taken_of(refs, user_codes), missing_of(refs, user_codes))

_score_all_of(option_items, user_codes) ==
    score_partition(CourseRefs(option_items), user_codes)

\* the initial "best" of eval_one_of; selected_option is None
one_of_best_init ==
    [match |-> -1, taken |-> << >>, missing |-> << >>, credited |-> {},
     complete |-> FALSE]

one_of_status(best) ==
    IF best.match = 0 THEN "missing"
    ELSE IF best.match > 0 THEN "in_progress"
    ELSE "missing"

\* the tail of eval_one_of, reached when no option returned early
one_of_finish(best, user_credits) ==
    IF "selected_option" \in DOMAIN best
    THEN [status          |-> one_of_status(best),
          taken           |-> best.taken,
          missing         |-> best.missing,
          credited_codes  |-> best.credited,
          credits_earned  |-> CreditsEarned(best.taken, user_credits),
          selected_option |-> best.selected_option]
    ELSE [status          |-> one_of_status(best),
          taken           |-> best.taken,
          missing         |-> best.missing,
          credited_codes  |-> best.credited,
          credits_earned  |-> CreditsEarned(best.taken, user_credits)]

\* "if match_count > best['match']" written with >=
one_of_better_or_equal(match_count, best) == match_count >= best.match

one_of_better(match_count, best) == match_count > best.match

\* the option loop of eval_one_of from option k on, with the best so far
RECURSIVE one_of_loop(_, _, _, _, _)
RECURSIVE one_of_course(_, _, _, _, _, _)
RECURSIVE one_of_all_of(_, _, _, _, _, _)

\* a COURSE option whose normalized code is code
one_of_course(options, k, best, code, user_codes, user_credits) ==
    IF code \in user_codes
    THEN [status          |-> "complete",
          taken           |-> << course_dict(code, options[k]) >>,
          missing         |-> << >>,
          credited_codes  |-> {code},
          credits_earned  |-> Get(user_credits, code, Get(options[k], "credits", 0)),
          selected_option |-> [type |-> "COURSE", code |-> code]]
    ELSE one_of_loop(options, k + 1,
            IF best.match < 0
            THEN [match |-> 0, taken |-> << >>,
                  missing |-> << course_dict(code, options[k]) >>,
                  credited |-> {}, complete |-> FALSE,
                  selected_option |-> [type |-> "COURSE", code |-> code]]
            ELSE best,
            user_codes, user_credits)

\* an ALL_OF option that _score_all_of scored as score
one_of_all_of(options, k, best, score, user_codes, user_credits) ==
    IF Len(score.missing) = 0
    THEN [status          |-> "complete",
          taken           |-> score.taken,
          missing         |-> << >>,
          credited_codes  |-> score.credited,
          credits_earned  |-> CreditsEarned(score.taken, user_credits),
          selected_option |-> [type |-> "ALL_OF",
                               items |-> [j \in 1..Len(score.taken) |-> score.taken[j].code]]]
    ELSE one_of_loop(options, k + 1,
            IF one_of_better(score.match_count, best)
            THEN [match |-> score.match_count, taken |-> score.taken,
                  missing |-> score.missing, credited |-> score.credited,
                  complete |-> FALSE,
                  selected_option |-> [type |-> "ALL_OF"]]
            ELSE best,
            user_codes, user_credits)

one_of_loop(options, k, best, user_codes, user_credits) ==
    IF k > Len(options) THEN one_of_finish(best, user_credits)
    ELSE IF options[k].type = "COURSE"
    THEN one_of_course(options, k, best, normalize_code(options[k].code),
                       user_codes, user_credits)
    ELSE IF options[k].type = "ALL_OF"
    THEN one_of_all_of(options, k, best,
                       _score_all_of(Get(options[k], "items", << >>), user_codes),
                       user_codes, user_credits)
    ELSE one_of_loop(options, k + 1, best, user_codes, user_credits)

Reverse(list) == [k \in 1..Len(list) |-> list[Len(list) + 1 - k]]

\* a ONE_OF evaluator that scans the options last to first
eval_one_of_reversed(section, user_codes, user_credits) ==
    one_of_loop(Reverse(Get(section, "options", << >>)), 1, one_of_best_init,
                user_codes, user_credits)

eval_one_of(section, user_codes, user_credits) ==
    one_of_loop(Get(section, "options", << >>), 1, one_of_best_init,
                user_codes, user_credits)

\* a max(..., 0) that does not clamp
MaxUnclamped(a, b) == a

Max(a, b) == IF a > b THEN a ELSE b

Min(a, b) == IF a < b THEN a ELSE b

\* list[:n]: the first n elements, or all but the last -n when n < 0
Slice(list, n) ==
    IF n >= 0 THEN SubSeq(list, 1, Min(n, Len(list)))
    ELSE SubSeq(list, 1, Max(Len(list) + n, 0))

\* an N_OF evaluator that credits every present course
n_of_credited_slice_all(present, n) == present

\* credited_slice = present[:n]
n_of_credited_slice(present, n) == Slice(present, n)

\* an N_OF evaluator that lists every absent course as missing
n_of_missing_all(absent, remaining_needed) == absent

\* missing = absent[:remaining_needed] if remaining_needed > 0 else []
n_of_missing(absent, remaining_needed) ==
    IF remaining_needed > 0 THEN Slice(absent, remaining_needed) ELSE << >>

\* the status and the returned dict of eval_n_of
n_of_report(n, present, absent, credited_slice, remaining_needed, user_credits) ==
    [status         |-> IF remaining_needed = 0 THEN "complete"
                        ELSE IF Len(present) # 0 THEN "in_progress"
                        ELSE "missing",
     taken          |-> present,
     missing        |-> n_of_missing(absent, remaining_needed),
     credited_codes |-> CodesOf(credited_slice),
     credits_earned |-> CreditsEarned(credited_slice, user_credits),
     n_required     |-> n,
     n_completed    |-> Min(Len(present), n)]

\* credited_slice and remaining_needed of eval_n_of
n_of_result(n, present, absent, user_credits) ==
    n_of_report(n, present, absent, n_of_credited_slice(present, n),
                Max(n - Len(present), 0), user_credits)

\* the item loop of eval_n_of
n_of_partition(n, refs, user_codes, user_credits) ==
    n_of_result(n, taken_of(refs, user_codes), missing_of(refs, user_codes),
                user_credits)

eval_n_of(section, user_codes, user_credits) ==
    n_of_partition(Get(section, "n", 0), CourseRefs(Get(section, "items", << >>)),
                   user_codes, user_credits)

(***************************************************************************)
(* User catalog builder and major orchestrator: requirements_eval.py       *)
(***************************************************************************)
\* Python values a planned-course record may hold under "code" and
\* "credits": None, a str, a list, or the int n * 10^e
PyNone == [py |-> "None"]

PyStr(s) == [py |-> "str", s |-> s]

PyList == [py |-> "list"]

PyInt(n) == [py |-> "int", n |-> n, e |-> 0]

PyIntE(n, e) == [py |-> "int", n |-> n, e |-> e]

\* the outcome of a call: a value, or the exception it raised
Returned(v) == [exc |-> "none", v |-> v]

Raised(exc) == [exc |-> exc]

Digits == <<"0", "1", "2", "3", "4", "5", "6", "7", "8", "9">>

DigitValue(c) == (CHOOSE d \in 1..Len(Digits) : Digits[d] = c) - 1

IsDigit(c) == \E d \in 1..Len(Digits) : Digits[d] = c

\* str(n) for an int n >= 0
RECURSIVE int_str(_)
int_str(n) ==
    IF n < Len(Digits) THEN Digits[n + 1]
    ELSE int_str(n \div Len(Digits)) \o Digits[(n % Len(Digits)) + 1]

RECURSIVE Pow10(_)
Pow10(e) == IF e = 0 THEN 1 ELSE Len(Digits) * Pow10(e - 1)

\* str(x)
py_str(x) ==
    IF x.py = "str" THEN x.s
    ELSE IF x.py = "None" THEN "None"
    ELSE IF x.py = "list" THEN "[]"
    ELSE IF x.n < 0 THEN "-" \o int_str((0 - x.n) * Pow10(x.e))
    ELSE int_str(x.n * Pow10(x.e))

\* the value of the decimal digits s[k..], given the value acc of s[1..k-1];
\* a fraction part of zeros only is accepted, any other character is a
\* ValueError
RECURSIVE parse_digits(_, _, _, _)
parse_digits(s, k, acc, seen) ==
    IF k > Len(s) THEN (IF seen THEN Returned(acc) ELSE Raised("ValueError"))
    ELSE IF IsDigit(CharAt(s, k))
         THEN parse_digits(s, k + 1, acc * Len(Digits) + DigitValue(CharAt(s, k)), TRUE)
    ELSE IF CharAt(s, k) = "." /\ seen
              /\ \A j \in (k + 1)..Len(s) : CharAt(s, j) = "0"
         THEN Returned(acc)
    ELSE Raised("ValueError")

negate(f) == IF f.exc = "none" THEN Returned(0 - f.v) ELSE f

\* float(s) for a str s already stripped
parse_signed(s) ==
    IF Len(s) > 0 /\ CharAt(s, 1) = "-" THEN negate(parse_digits(s, 2, 0, FALSE))
    ELSE IF Len(s) > 0 /\ CharAt(s, 1) = "+" THEN parse_digits(s, 2, 0, FALSE)
    ELSE parse_digits(s, 1, 0, FALSE)

\* the largest e for which 10^e is a finite float
FloatMax10Exp == 308

\* float(x): whole numbers only; an int beyond the float range raises
\* OverflowError
py_float(x) ==
    IF x.py = "str" THEN parse_signed(str_strip(x.s))
    ELSE IF x.py = "int"
         THEN (IF x.n # 0 /\ x.e > FloatMax10Exp THEN Raised("OverflowError")
               ELSE Returned(x.n * Pow10(x.e)))
    ELSE Raised("TypeError")

\* except (ValueError, TypeError): 0.0
float_or_zero(f) ==
    IF f.exc \in {"ValueError", "TypeError"} THEN Returned(0) ELSE f

\* float(raw) if raw is not None else 0.0, inside the try
coerce_credits(raw) ==
    IF raw.py = "None" THEN Returned(0) ELSE float_or_zero(py_float(raw))

\* the coerced c.get("credits", 0)
credits_value(c) == coerce_credits(Get(c, "credits", PyInt(0)))

\* the loop of build_user_catalog from record k on
RECURSIVE build_user_catalog_loop(_, _, _, _)
RECURSIVE build_user_catalog_credit(_, _, _, _, _, _)
RECURSIVE build_user_catalog_step(_, _, _, _, _, _)

\* user_codes.add(norm); user_credits[norm] = cr
build_user_catalog_step(planned_courses, k, codes, credits, nc, cr) ==
    build_user_catalog_loop(planned_courses, k + 1, codes \cup {nc},
        [x \in DOMAIN credits \cup {nc} |-> IF x = nc THEN cr ELSE credits[x]])

\* an exception of float() that the try does not catch ends the call
build_user_catalog_credit(planned_courses, k, codes, credits, nc, cr) ==
    IF cr.exc # "none"
    THEN [raised |-> cr.exc, user_codes |-> {}, user_credits |-> << >>]
    ELSE build_user_catalog_step(planned_courses, k, codes, credits, nc, cr.v)

\* c["code"] raises KeyError when the record has no such key
build_user_catalog_loop(planned_courses, k, codes, credits) ==
    IF k > Len(planned_courses)
    THEN [raised |-> "none", user_codes |-> codes, user_credits |-> credits]
    ELSE IF "code" \notin DOMAIN planned_courses[k]
    THEN [raised |-> "KeyError", user_codes |-> {}, user_credits |-> << >>]
    ELSE build_user_catalog_credit(planned_courses, k, codes, credits,
            normalize_code(py_str(planned_courses[k].code)),
            credits_value(planned_courses[k]))

build_user_catalog(planned_courses) ==
    build_user_catalog_loop(planned_courses, 1, {}, << >>)

\* a dispatch that hands a section of unrecognised type to eval_all_of
eval_section_unknown_as_all_of(section, user_codes, user_credits) ==
    IF section.type = "ONE_OF" THEN eval_one_of(section, user_codes, user_credits)
    ELSE IF section.type = "N_OF" THEN eval_n_of(section, user_codes, user_credits)
    ELSE eval_all_of(section, user_codes, user_credits)

\* the evaluator chosen by the section's type tag
eval_section(section, user_codes, user_credits) ==
    IF section.type = "ALL_OF" THEN eval_all_of(section, user_codes, user_credits)
    ELSE IF section.type = "ONE_OF" THEN eval_one_of(section, user_codes, user_credits)
    ELSE IF section.type = "N_OF" THEN eval_n_of(section, user_codes, user_credits)
    ELSE [status |-> "unknown", taken |-> << >>, missing |-> << >>,
          credited_codes |-> {}, credits_earned |-> 0]

\* a de-duplication that never looks at used_codes
dedup_codes_unchecked(credited_codes, used) == credited_codes

\* the credited codes that pass "if code not in used_codes"
dedup_codes(credited_codes, used) == credited_codes \ used

\* dedup_credits: the sum of user_credits.get(code, 0.0) over those codes
RECURSIVE dedup_credits(_, _)
RECURSIVE dedup_credits_add(_, _, _)
\* a sum that assigns where the code accumulates
dedup_credits_assign(code, codes, user_credits) == Get(user_credits, code, 0)

dedup_credits_add(code, codes, user_credits) ==
    Get(user_credits, code, 0) + dedup_credits(codes \ {code}, user_credits)

dedup_credits(codes, user_credits) ==
    IF codes = {} THEN 0
    ELSE dedup_credits_add(CHOOSE c \in codes : TRUE, codes, user_credits)

\* the dict appended to section_results
section_result(section, result, credits) ==
    IF "title" \in DOMAIN section
    THEN [id      |-> section.id,
          title   |-> section.title,
          type    |-> section.type,
          status  |-> result.status,
          taken   |-> result.taken,
          missing |-> result.missing,
          credits_earned |-> credits]
    ELSE [id      |-> section.id,
          type    |-> section.type,
          status  |-> result.status,
          taken   |-> result.taken,
          missing |-> result.missing,
          credits_earned |-> credits]

(***************************************************************************)
(* Degree evaluation and the combined evaluation: requirements_eval.py     *)
(***************************************************************************)
\* total_user_credits: the loop of evaluate_degree from record k on; an
\* exception of float() that the try does not catch ends the call
RECURSIVE degree_total_loop(_, _, _)
RECURSIVE degree_total_add(_, _, _, _)
degree_total_add(planned_courses, k, total, cr) ==
    IF cr.exc # "none" THEN cr
    ELSE degree_total_loop(planned_courses, k + 1, total + cr.v)

degree_total_loop(planned_courses, k, total) ==
    IF k > Len(planned_courses) THEN Returned(total)
    ELSE degree_total_add(planned_courses, k, total, credits_value(planned_courses[k]))

\* remaining = target - total_user_credits without the clamp
degree_remaining_unclamped(target, total) == target - total

\* remaining = target - total_user_credits; if remaining < 0: remaining = 0.0
degree_remaining(target, total) ==
    IF target - total < 0 THEN 0 ELSE target - total

\* the dict evaluate_degree returns (the gen_ed and ls_specific labels are
\* copied from the definition and are left out)
degree_report(college, target, total) ==
    [id |-> college.id,
     total_degree_credits |-> target,
     credits_completed |-> total,
     credits_remaining |-> degree_remaining(target, total)]

\* a lookup that falls back to the L&S_BS definition
college_lookup_default(key) ==
    IF key.py = "str" /\ key.s \in DOMAIN DEGREE_REQUIREMENTS
    THEN Returned(DEGREE_REQUIREMENTS[key.s])
    ELSE Returned(DEGREE_REQUIREMENTS["L&S_BS"])

\* college = DEGREE_REQUIREMENTS[college_key]
college_lookup(key) ==
    IF key.py = "str" /\ key.s \in DOMAIN DEGREE_REQUIREMENTS
    THEN Returned(DEGREE_REQUIREMENTS[key.s])
    ELSE Raised("KeyError")

degree_outcome(college, total) ==
    IF college.exc # "none" THEN college
    ELSE IF total.exc # "none" THEN total
    ELSE Returned(degree_report(college.v,
                                Get(college.v, "total_degree_credits", 120),
                                total.v))

evaluate_degree(key, planned_courses) ==
    degree_outcome(college_lookup(key), degree_total_loop(planned_courses, 1, 0))

\* bool(x)
py_truthy(x) ==
    IF x.py = "str" THEN x.s # ""
    ELSE IF x.py = "int" THEN x.n # 0
    ELSE FALSE

\* major_progress.get("college_key")
major_college(major_progress) ==
    IF "college_key" \in DOMAIN major_progress
    THEN PyStr(major_progress.college_key)
    ELSE PyNone

\* a resolution that ignores the college_key argument
college_to_use_from_major(key, major_progress) == major_college(major_progress)

\* college_to_use: the argument if truthy, else the major's college
college_to_use_of(key, major_progress) ==
    IF py_truthy(key) THEN key ELSE major_college(major_progress)

\* the dict evaluate returns
evaluate_report(college, major) ==
    [college_progress |-> college, major_progress |-> major]

(***************************************************************************)
(* State                                                                   *)
(***************************************************************************)
VARIABLES
    raw,        \* normalizer: the course-code string handed to normalize_code
    norm,       \* normalizer: the value normalize_code returned
    nstep,      \* normalizer: "input" before the call, "normalized" after it
    edits,      \* normalizer: number of edits made to the input spelling
    sec,        \* section evaluator: the section argument
    ucodes,     \* section evaluator: the user_codes argument
    ucredits,   \* section evaluator: the user_credits argument
    res,        \* section evaluator: the dict the evaluator returned
    sstep,      \* section evaluator: "input" before the call, "evaluated" after
    planned,    \* the caller's planned-course list
    pc,         \* evaluate_major: "idle", "sections", "done" or "error"
    major_key,  \* evaluate_major: the major_key argument
    user_codes,             \* evaluate_major: local user_codes
    user_credits,           \* evaluate_major: local user_credits
    idx,                    \* evaluate_major: position of "for sec in sections"
    section_results,        \* evaluate_major: local section_results
    used_codes,             \* evaluate_major: local used_codes
    major_credits_earned,   \* evaluate_major: local major_credits_earned
    counted,    \* per section, the codes that passed "if code not in used_codes"
    report,     \* the dict evaluate_major returned
    raised,     \* the exception that ended the call, or "none"
    major_requirements,     \* the module's MAJOR_REQUIREMENTS dict
    college_key,            \* evaluate: the college_key argument
    epc,        \* evaluate / evaluate_degree: position of the call
    college_to_use,         \* evaluate: local college_to_use
    college_progress,       \* the dict evaluate_degree returned
    evaluation, \* the dict evaluate returned
    prev,       \* the report of the previous evaluation and its course list
    calls,      \* concurrent calls: the arguments each caller passed
    frames,     \* concurrent calls: the locals of each call
    stores      \* concurrent calls: the used_codes sets the calls created

nvars == << raw, norm, nstep, edits >>

svars == << sec, ucodes, ucredits, res, sstep >>

locals == << user_codes, user_credits, idx, section_results, used_codes,
             major_credits_earned, counted >>

mvars == << planned, pc, major_key, locals, report, raised, major_requirements >>

evars == << college_key, epc, college_to_use, college_progress, evaluation >>

hvars == << prev >>

cvars == << calls, frames, stores >>

ovars == << evars, hvars, cvars >>

vars == << nvars, svars, mvars, ovars >>

\* the normalizer at rest
NormIdle == raw = "" /\ norm = "" /\ nstep = "input" /\ edits = 0

\* the section evaluators at rest
NoSection == [id |-> "none", type |-> "NONE"]

NoResult == [status |-> "not_evaluated"]

SectionIdle ==
    /\ sec = NoSection
    /\ ucodes = {}
    /\ ucredits = << >>
    /\ res = NoResult
    /\ sstep = "input"

\* no evaluation in progress: the locals do not exist
NoReport == [id |-> "none"]

NoLocals ==
    /\ user_codes = {}
    /\ user_credits = << >>
    /\ idx = 0
    /\ section_results = << >>
    /\ used_codes = {}
    /\ major_credits_earned = 0
    /\ counted = << >>

MajorIdle ==
    /\ planned = << >>
    /\ pc = "idle"
    /\ major_key = ""
    /\ NoLocals
    /\ report = NoReport
    /\ raised = "none"

\* the module has been imported: the rule catalog holds its literal
RulesLoaded == major_requirements = MAJOR_REQUIREMENTS

\* no evaluate or evaluate_degree call in progress
EvaluateIdle ==
    /\ college_key = PyNone
    /\ epc = "idle"
    /\ college_to_use = PyNone
    /\ college_progress = NoReport
    /\ evaluation = NoReport

\* no evaluation has returned yet
NoHistory == prev = NoReport

\* no concurrent calls
NoCalls == calls = << >> /\ frames = << >> /\ stores = << >>

OthersIdle ==
    /\ EvaluateIdle
    /\ NoHistory
    /\ NoCalls

(***************************************************************************)
(* Normalizer runs: an input spelling is chosen, respelled with other      *)
(* case and spacing, normalized, and the canonical code is fed back as an  *)
(* input (as happens when a reported code is entered as a planned course)  *)
(***************************************************************************)
MaxEdits == 2

BaseCodes ==
    { "", "COMP SCI/ECE 354", "COMP SCI 354", "COMP SCI/E C E 354",
      "STAT/MATH 309", "MATH 221" }

InitNorm ==
    /\ raw \in BaseCodes
    /\ norm = ""
    /\ nstep = "input"
    /\ edits = 0
    /\ SectionIdle
    /\ MajorIdle
    /\ RulesLoaded
    /\ OthersIdle

InsertSpace ==
    /\ nstep = "input"
    /\ edits < MaxEdits
    /\ \E k \in 0..Len(raw), w \in Whitespace :
          raw' = SubSeq(raw, 1, k) \o w \o SubSeq(raw, k + 1, Len(raw))
    /\ edits' = edits + 1
    /\ UNCHANGED << norm, nstep, svars, mvars, ovars >>

LowerCase ==
    /\ nstep = "input"
    /\ edits < MaxEdits
    /\ \E k \in 1..Len(raw) :
          /\ LowerChar(CharAt(raw, k)) # CharAt(raw, k)
          /\ raw' = SubSeq(raw, 1, k - 1) \o LowerChar(CharAt(raw, k))
                        \o SubSeq(raw, k + 1, Len(raw))
    /\ edits' = edits + 1
    /\ UNCHANGED << norm, nstep, svars, mvars, ovars >>

Normalize ==
    /\ nstep = "input"
    /\ norm' = normalize_code(raw)
    /\ nstep' = "normalized"
    /\ UNCHANGED << raw, edits, svars, mvars, ovars >>

Renormalize ==
    /\ nstep = "normalized"
    /\ raw' = norm
    /\ nstep' = "input"
    /\ UNCHANGED << norm, edits, svars, mvars, ovars >>

NextNorm ==
    \/ InsertSpace
    \/ LowerCase
    \/ Normalize
    \/ Renormalize

SpecNorm == InitNorm /\ [][NextNorm]_vars

\* C4: normalize_code is idempotent: normalizing a value normalize_code
\* returned gives that value back, for every input spelling (alias keys,
\* alias targets and the empty string included).
C4_Idempotent ==
    nstep = "normalized" =>
        /\ norm = normalize_code(raw)
        /\ normalize_code(norm) = norm

\* an alias key, respelled, was normalized to its target
C4_Witness ==
    /\ nstep = "normalized"
    /\ edits > 0
    /\ raw \notin DOMAIN ALIASES
    /\ norm \in {ALIASES[a] : a \in DOMAIN ALIASES}
    /\ norm # normalize_code_no_alias(raw)
(***************************************************************************)
(* Section evaluator runs: a section and a user catalog are chosen and the *)
(* evaluator for the section's type is applied                             *)
(***************************************************************************)
MaxItems == 3

MaxOptions == 2

\* course references a section may list: with and without declared
\* credits, one of them spelled in lower case
ItemPool ==
    { [code |-> "A", credits |-> 3], [code |-> "B", credits |-> 4], [code |-> "c"] }

ItemLists == UNION {[1..m -> ItemPool] : m \in 0..MaxItems}

\* options a ONE_OF section may list
OptionPool ==
    { [type |-> "COURSE", code |-> "A", credits |-> 3],
      [type |-> "COURSE", code |-> "c"],
      [type |-> "ALL_OF", items |-> << [code |-> "B", credits |-> 4], [code |-> "c"] >>],
      [type |-> "ALL_OF", items |-> << [code |-> "A", credits |-> 3],
                                       [code |-> "B", credits |-> 4],
                                       [code |-> "c"] >>],
      [type |-> "ALL_OF", items |-> << [code |-> "A", credits |-> 3] >>],
      [type |-> "ALL_OF", items |-> << >>] }

OptionLists == UNION {[1..m -> OptionPool] : m \in 0..MaxOptions}

AllOfSections ==
    {[id |-> "s", type |-> "ALL_OF", items |-> items] : items \in ItemLists}

NOfSections ==
    {[id |-> "s", type |-> "N_OF", n |-> n, items |-> items] :
        n \in 0..(MaxItems + 1), items \in ItemLists}

OneOfSections ==
    {[id |-> "s", type |-> "ONE_OF", options |-> options] : options \in OptionLists}

\* the canonical codes a user may have, and the credits the user reports
UserCodePool == {"A", "B", "C"}

UserCreditOf == ("A" :> 2) @@ ("B" :> 5) @@ ("C" :> 1)

InitSection ==
    /\ NormIdle
    /\ MajorIdle
    /\ RulesLoaded
    /\ OthersIdle
    /\ sec \in AllOfSections \cup NOfSections \cup OneOfSections
    /\ ucodes \in SUBSET UserCodePool
    /\ \E known \in SUBSET ucodes : ucredits = [c \in known |-> UserCreditOf[c]]
    /\ res = NoResult
    /\ sstep = "input"

EvalAllOf ==
    /\ sstep = "input"
    /\ sec.type = "ALL_OF"
    /\ res' = eval_all_of(sec, ucodes, ucredits)
    /\ sstep' = "evaluated"
    /\ UNCHANGED << sec, ucodes, ucredits, nvars, mvars, ovars >>

EvalOneOf ==
    /\ sstep = "input"
    /\ sec.type = "ONE_OF"
    /\ res' = eval_one_of(sec, ucodes, ucredits)
    /\ sstep' = "evaluated"
    /\ UNCHANGED << sec, ucodes, ucredits, nvars, mvars, ovars >>

EvalNOf ==
    /\ sstep = "input"
    /\ sec.type = "N_OF"
    /\ res' = eval_n_of(sec, ucodes, ucredits)
    /\ sstep' = "evaluated"
    /\ UNCHANGED << sec, ucodes, ucredits, nvars, mvars, ovars >>

NextSection ==
    \/ EvalAllOf
    \/ EvalOneOf
    \/ EvalNOf

SpecSection == InitSection /\ [][NextSection]_vars

(***************************************************************************)
(* Major evaluation runs: the caller builds the planned_courses argument   *)
(* and calls evaluate_major, which runs one section per step               *)
(***************************************************************************)
MaxCourses == 3

\* {"code": code, "credits": credits} with a str code and an int
Course(code, credits) == [code |-> PyStr(code), credits |-> PyInt(credits)]

\* the planned course dicts a caller may pass
CoursePool ==
    { Course("COMP SCI 354", 3),
      Course("comp sci/ece  252", 3),
      Course("COMP SCI 300", 3),
      Course("MATH 221", 5),
      Course("COMP SCI 407", 3),
      Course("COMP SCI 538", 4),
      Course("COMP SCI 537", 3),
      Course("COMP SCI 412", 2),
      Course("COMP SCI 534", 3) }

\* the major keys a caller may ask for
MajorKeys == {"CS_LS", "NOPE"}

Init ==
    /\ NormIdle
    /\ SectionIdle
    /\ MajorIdle
    /\ RulesLoaded
    /\ OthersIdle

\* the caller adds one more dict to the planned_courses argument
AddCourse ==
    /\ pc = "idle"
    /\ Len(planned) < MaxCourses
    /\ \E c \in CoursePool : planned' = Append(planned, c)
    /\ UNCHANGED << pc, major_key, locals, report, raised, major_requirements,
                    nvars, svars, ovars >>

\* user_codes, user_credits = build_user_catalog(planned_courses) and the
\* initial locals; an exception of build_user_catalog ends the call
set_catalog(catalog) ==
    IF catalog.raised # "none"
    THEN /\ pc' = "error"
         /\ raised' = catalog.raised
         /\ UNCHANGED locals
    ELSE /\ user_codes' = catalog.user_codes
         /\ user_credits' = catalog.user_credits
         /\ idx' = 1
         /\ section_results' = << >>
         /\ used_codes' = {}
         /\ major_credits_earned' = 0
         /\ counted' = << >>
         /\ pc' = "sections"
         /\ UNCHANGED raised

\* evaluate_major up to the section loop
StartMajor ==
    /\ pc = "idle"
    /\ \E key \in MajorKeys :
          /\ key \in DOMAIN MAJOR_REQUIREMENTS
          /\ major_key' = key
    /\ set_catalog(build_user_catalog(planned))
    /\ UNCHANGED << planned, report, major_requirements, nvars, svars, ovars >>

\* MAJOR_REQUIREMENTS[major_key] raises KeyError
MajorKeyError ==
    /\ pc = "idle"
    /\ \E key \in MajorKeys :
          /\ key \notin DOMAIN MAJOR_REQUIREMENTS
          /\ major_key' = key
    /\ pc' = "error"
    /\ raised' = "KeyError"
    /\ UNCHANGED << planned, locals, report, major_requirements, nvars, svars, ovars >>

\* the section the loop is at
current_section == MAJOR_REQUIREMENTS[major_key].sections[idx]

\* section_results.append(..); major_credits_earned += dedup_credits
append_section(section, result, fresh, credits) ==
    /\ section_results' = Append(section_results,
                                 section_result(section, result, credits))
    /\ used_codes' = used_codes \cup fresh
    /\ counted' = Append(counted, fresh)
    /\ major_credits_earned' = major_credits_earned + credits

\* the de-duplication loop over res["credited_codes"]
dedup_section(section, result, fresh) ==
    append_section(section, result, fresh, dedup_credits(fresh, user_credits))

record_section(section, result) ==
    dedup_section(section, result, dedup_codes(result.credited_codes, used_codes))

\* one iteration of "for sec in sections"
EvalSection ==
    /\ pc = "sections"
    /\ idx <= Len(MAJOR_REQUIREMENTS[major_key].sections)
    /\ record_section(current_section,
                      eval_section(current_section, user_codes, user_credits))
    /\ idx' = idx + 1
    /\ UNCHANGED << planned, pc, major_key, user_codes, user_credits, report,
                    raised, major_requirements, nvars, svars, ovars >>

\* the dict evaluate_major returns (major.get("college") is None when the
\* definition has no college: the field is then absent)
major_report(major, key, results, earned, target) ==
    IF "college" \in DOMAIN major
    THEN [id |-> major.id,
          major_key |-> key,
          sections |-> results,
          major_credits_earned |-> earned,
          major_credits_target |-> target,
          remaining_credits |-> Max(target - earned, 0),
          college_key |-> major.college]
    ELSE [id |-> major.id,
          major_key |-> key,
          sections |-> results,
          major_credits_earned |-> earned,
          major_credits_target |-> target,
          remaining_credits |-> Max(target - earned, 0)]

\* the summary and the return of evaluate_major
FinishMajor ==
    /\ pc = "sections"
    /\ idx > Len(MAJOR_REQUIREMENTS[major_key].sections)
    /\ report' = major_report(MAJOR_REQUIREMENTS[major_key], major_key,
                              section_results, major_credits_earned,
                              Get(MAJOR_REQUIREMENTS[major_key], "total_major_credits", 0))
    /\ pc' = "done"
    /\ UNCHANGED << planned, major_key, locals, raised, major_requirements,
                    nvars, svars, ovars >>

\* the caller has consumed the outcome; the locals are gone
Return ==
    /\ pc \in {"done", "error"}
    /\ epc = "idle"
    /\ pc' = "idle"
    /\ major_key' = ""
    /\ user_codes' = {}
    /\ user_credits' = << >>
    /\ idx' = 0
    /\ section_results' = << >>
    /\ used_codes' = {}
    /\ major_credits_earned' = 0
    /\ counted' = << >>
    /\ report' = NoReport
    /\ raised' = "none"
    /\ UNCHANGED << planned, major_requirements, nvars, svars, ovars >>

Next ==
    \/ AddCourse
    \/ StartMajor
    \/ MajorKeyError
    \/ EvalSection
    \/ FinishMajor
    \/ Return

Spec == Init /\ [][Next]_vars

(***************************************************************************)
(* Combined evaluation runs: the caller builds a planned_courses list of   *)
(* arbitrary records and calls evaluate, or evaluate_degree directly       *)
(***************************************************************************)
MaxRecords == 2

\* planned-course records as a caller may send them: a repeated course
\* under another spelling with a numeric string, null and missing credits,
\* a course outside every rule section, an int beyond the float range, and
\* records whose code is missing, null or empty
RecordPool ==
    { Course("COMP SCI 407", 3),
      [code |-> PyStr("comp sci  407"), credits |-> PyStr(" 4 ")],
      [code |-> PyStr("MATH 221"), credits |-> PyNone],
      [code |-> PyStr("COMP SCI 300")],
      [code |-> PyStr("MATH 222"), credits |-> PyList],
      Course("ART 100", 80),
      [code |-> PyStr("ART 200"), credits |-> PyIntE(1, 400)],
      [credits |-> PyInt(3)],
      [code |-> PyNone, credits |-> PyInt(3)],
      [code |-> PyStr(""), credits |-> PyStr("abc")] }

\* the college keys a caller may pass
CollegeKeys == {PyNone, PyStr(""), PyStr("L&S_BS"), PyStr("NOPE")}

InitEvaluate == Init

\* the caller adds one more dict to the planned_courses argument
AddRecord ==
    /\ pc = "idle"
    /\ epc = "idle"
    /\ Len(planned) < MaxRecords
    /\ \E c \in RecordPool : planned' = Append(planned, c)
    /\ UNCHANGED << pc, major_key, locals, report, raised, major_requirements,
                    nvars, svars, ovars >>

\* evaluate is called: it first calls evaluate_major
CallEvaluate ==
    /\ pc = "idle"
    /\ epc = "idle"
    /\ \E key \in CollegeKeys : college_key' = key
    /\ epc' = "major"
    /\ UNCHANGED << college_to_use, college_progress, evaluation,
                    nvars, svars, mvars, hvars, cvars >>

\* an exception of evaluate_major leaves evaluate
MajorRaised ==
    /\ epc = "major"
    /\ pc = "error"
    /\ epc' = "error"
    /\ UNCHANGED << college_key, college_to_use, college_progress, evaluation,
                    nvars, svars, mvars, hvars, cvars >>

\* evaluate chooses the college and calls evaluate_degree
ResolveCollege ==
    /\ epc = "major"
    /\ pc = "done"
    /\ college_to_use' = college_to_use_of(college_key, report)
    /\ epc' = "degree"
    /\ UNCHANGED << college_key, college_progress, evaluation,
                    nvars, svars, mvars, hvars, cvars >>

\* evaluate_degree is called directly
CallDegree ==
    /\ pc = "idle"
    /\ epc = "idle"
    /\ \E key \in CollegeKeys : college_to_use' = key
    /\ epc' = "degree"
    /\ UNCHANGED << college_key, college_progress, evaluation,
                    nvars, svars, mvars, hvars, cvars >>

\* evaluate_degree returns its dict
EvalDegree ==
    /\ epc = "degree"
    /\ evaluate_degree(college_to_use, planned).exc = "none"
    /\ college_progress' = evaluate_degree(college_to_use, planned).v
    /\ epc' = "degree_done"
    /\ UNCHANGED << college_key, college_to_use, evaluation,
                    nvars, svars, mvars, hvars, cvars >>

\* evaluate_degree raises
DegreeRaised ==
    /\ epc = "degree"
    /\ evaluate_degree(college_to_use, planned).exc # "none"
    /\ raised' = evaluate_degree(college_to_use, planned).exc
    /\ epc' = "error"
    /\ UNCHANGED << planned, pc, major_key, locals, report, major_requirements,
                    college_key, college_to_use, college_progress, evaluation,
                    nvars, svars, hvars, cvars >>

\* evaluate returns both dicts
Combine ==
    /\ epc = "degree_done"
    /\ pc = "done"
    /\ evaluation' = evaluate_report(college_progress, report)
    /\ epc' = "done"
    /\ UNCHANGED << college_key, college_to_use, college_progress,
                    nvars, svars, mvars, hvars, cvars >>

\* the caller has consumed the outcome; the locals are gone
ReturnEvaluate ==
    /\ \/ epc \in {"done", "error"}
       \/ epc = "degree_done" /\ pc = "idle"
    /\ college_key' = PyNone
    /\ epc' = "idle"
    /\ college_to_use' = PyNone
    /\ college_progress' = NoReport
    /\ evaluation' = NoReport
    /\ pc' = "idle"
    /\ major_key' = ""
    /\ user_codes' = {}
    /\ user_credits' = << >>
    /\ idx' = 0
    /\ section_results' = << >>
    /\ used_codes' = {}
    /\ major_credits_earned' = 0
    /\ counted' = << >>
    /\ report' = NoReport
    /\ raised' = "none"
    /\ UNCHANGED << planned, major_requirements, nvars, svars, hvars, cvars >>

NextEvaluate ==
    \/ AddRecord
    \/ CallEvaluate
    \/ epc = "major" /\ StartMajor
    \/ epc = "major" /\ MajorKeyError
    \/ epc = "major" /\ EvalSection
    \/ epc = "major" /\ FinishMajor
    \/ MajorRaised
    \/ ResolveCollege
    \/ CallDegree
    \/ EvalDegree
    \/ DegreeRaised
    \/ Combine
    \/ ReturnEvaluate

SpecEvaluate == InitEvaluate /\ [][NextEvaluate]_vars

(***************************************************************************)
(* Several evaluate calls at once: every call has its own frame of locals; *)
(* the module's rule catalog is the only object the calls have in common.  *)
(* The same runs, on a rule catalog that holds a section of unrecognised   *)
(* type, show what evaluate_major does with such a section.                *)
(***************************************************************************)
\* the locals of an evaluate call that has not run yet
NewFrame ==
    [pc |-> "start", user_codes |-> {}, user_credits |-> << >>, idx |-> 0,
     section_results |-> << >>, major_credits_earned |-> 0,
     major_progress |-> NoReport, evaluation |-> NoReport, raised |-> "none"]

\* the call ends with an exception
frame_raise(f, exc) == [f EXCEPT !.pc = "raised", !.raised = exc]

\* user_codes, user_credits = build_user_catalog(planned_courses)
frame_catalog(f, catalog) ==
    IF catalog.raised # "none" THEN frame_raise(f, catalog.raised)
    ELSE [f EXCEPT !.pc = "sections", !.idx = 1,
                   !.user_codes = catalog.user_codes,
                   !.user_credits = catalog.user_credits]

\* evaluate_major up to the section loop
frame_start(f, call, rules) ==
    IF f.pc # "start" THEN f
    ELSE IF call.major_key \notin DOMAIN rules THEN frame_raise(f, "KeyError")
    ELSE frame_catalog(f, build_user_catalog(call.planned))

\* section_results.append(..); major_credits_earned += dedup_credits
frame_append(f, section, result, credits) ==
    [f EXCEPT !.section_results = Append(@, section_result(section, result, credits)),
              !.major_credits_earned = @ + credits,
              !.idx = @ + 1]

\* one iteration of "for sec in sections", given the codes that passed
\* "if code not in used_codes"
frame_section(f, section, result, fresh) ==
    frame_append(f, section, result, dedup_credits(fresh, f.user_credits))

\* the summary of evaluate_major
frame_finish(f, call, major) ==
    [f EXCEPT !.pc = "degree",
              !.major_progress =
                  major_report(major, call.major_key, f.section_results,
                               f.major_credits_earned,
                               Get(major, "total_major_credits", 0))]

\* the rest of evaluate, given the outcome of evaluate_degree
frame_return(f, degree) ==
    IF degree.exc # "none" THEN frame_raise(f, degree.exc)
    ELSE [f EXCEPT !.pc = "returned",
                   !.evaluation = evaluate_report(degree.v, f.major_progress)]

frame_degree(f, call) ==
    IF f.pc # "degree" THEN f
    ELSE frame_return(f, evaluate_degree(
                            college_to_use_of(call.college_key, f.major_progress),
                            call.planned))

\* the used_codes set every call would share if it were a module global
used_slot_shared(c) == 1

\* the used_codes set of call c: "used_codes = set()" makes one per call
used_slot(c) == c

NumCalls == 2

\* the arguments of the calls
CallPool ==
    { [college_key |-> PyNone, major_key |-> "CS_LS",
       planned |-> << Course("COMP SCI 407", 3), Course("COMP SCI 538", 4),
                      Course("COMP SCI 537", 3) >>],
      [college_key |-> PyStr("L&S_BS"), major_key |-> "CS_LS",
       planned |-> << Course("COMP SCI 412", 2), Course("COMP SCI 407", 3) >>],
      [college_key |-> PyNone, major_key |-> "NOPE", planned |-> << >>] }

InitConcurrent ==
    /\ NormIdle
    /\ SectionIdle
    /\ MajorIdle
    /\ RulesLoaded
    /\ EvaluateIdle
    /\ NoHistory
    /\ calls \in [1..NumCalls -> CallPool]
    /\ frames = [c \in 1..NumCalls |-> NewFrame]
    /\ stores = [c \in 1..NumCalls |-> {}]

\* call c enters evaluate and evaluate_major
CallStart(c) ==
    /\ frames[c].pc = "start"
    /\ frames' = [frames EXCEPT ![c] = frame_start(@, calls[c], major_requirements)]
    /\ stores' = [stores EXCEPT ![used_slot(c)] = {}]
    /\ UNCHANGED << calls, nvars, svars, mvars, evars, hvars >>

\* the section call c is at
call_section(c) == major_requirements[calls[c].major_key].sections[frames[c].idx]

call_record(c, section, result, fresh) ==
    /\ frames' = [frames EXCEPT ![c] = frame_section(@, section, result, fresh)]
    /\ stores' = [stores EXCEPT ![used_slot(c)] = @ \cup fresh]

call_dedup(c, section, result) ==
    call_record(c, section, result, dedup_codes(result.credited_codes, stores[used_slot(c)]))

\* call c runs one iteration of the section loop
CallSection(c) ==
    /\ frames[c].pc = "sections"
    /\ frames[c].idx <= Len(major_requirements[calls[c].major_key].sections)
    /\ call_dedup(c, call_section(c),
                  eval_section(call_section(c), frames[c].user_codes,
                               frames[c].user_credits))
    /\ UNCHANGED << calls, nvars, svars, mvars, evars, hvars >>

\* call c leaves evaluate_major with its report
CallFinish(c) ==
    /\ frames[c].pc = "sections"
    /\ frames[c].idx > Len(major_requirements[calls[c].major_key].sections)
    /\ frames' = [frames EXCEPT ![c] =
                     frame_finish(@, calls[c], major_requirements[calls[c].major_key])]
    /\ UNCHANGED << calls, stores, nvars, svars, mvars, evars, hvars >>

\* call c runs evaluate_degree and returns
CallReturn(c) ==
    /\ frames[c].pc = "degree"
    /\ frames' = [frames EXCEPT ![c] = frame_degree(@, calls[c])]
    /\ UNCHANGED << calls, stores, nvars, svars, mvars, evars, hvars >>

NextConcurrent ==
    \/ \E c \in DOMAIN frames : CallStart(c)
    \/ \E c \in DOMAIN frames : CallSection(c)
    \/ \E c \in DOMAIN frames : CallFinish(c)
    \/ \E c \in DOMAIN frames : CallReturn(c)

SpecConcurrent == InitConcurrent /\ [][NextConcurrent]_vars

MaxSections == 2

\* course references and sections of a rule catalog under development, one
\* of them with a type tag that no evaluator knows
RuleItems == << [code |-> "A 1", credits |-> 3], [code |-> "B 2", credits |-> 4] >>

RuleSectionPool ==
    { [id |-> "all", title |-> "All", type |-> "ALL_OF", items |-> RuleItems],
      [id |-> "any", title |-> "Any", type |-> "ANY_OF", items |-> RuleItems],
      [id |-> "pick", type |-> "N_OF", n |-> 1, items |-> RuleItems],
      [id |-> "one", type |-> "ONE_OF",
       options |-> << [type |-> "COURSE", code |-> "B 2", credits |-> 4],
                      [type |-> "ALL_OF", items |-> RuleItems] >>] }

RuleCatalogs ==
    { "T" :> [id |-> "Test", college |-> "L&S_BS", total_major_credits |-> 10,
              sections |-> sections] :
        sections \in UNION {[1..m -> RuleSectionPool] : m \in 0..MaxSections} }

RuleCallPool ==
    { [college_key |-> PyNone, major_key |-> "T", planned |-> courses] :
        courses \in { << >>, << Course("a 1", 3) >>, << Course("B 2", 4) >>,
                      << Course("A 1", 2), Course("b  2", 5) >> } }

InitRules ==
    /\ NormIdle
    /\ SectionIdle
    /\ MajorIdle
    /\ EvaluateIdle
    /\ NoHistory
    /\ major_requirements \in RuleCatalogs
    /\ calls \in [{1} -> RuleCallPool]
    /\ frames = [c \in {1} |-> NewFrame]
    /\ stores = [c \in {1} |-> {}]

SpecRules == InitRules /\ [][NextConcurrent]_vars

(***************************************************************************)
(* Re-evaluation runs: the caller evaluates the major, keeps the report,   *)
(* adds one planned course and evaluates again                             *)
(***************************************************************************)
MaxPlan == 3

\* the planned course dicts the caller adds: well-formed, with credits the
\* user entered
PlanPool ==
    { Course("MATH 171", 5),
      Course("MATH 221", 4),
      Course("COMP SCI 300", 3),
      Course("COMP SCI 400", 4),
      Course("COMP SCI 354", 3),
      Course("COMP SCI 407", 3),
      Course("COMP SCI 536", 3),
      Course("COMP SCI 537", 4) }

InitPlan == Init

\* what the caller keeps of an evaluation that returned
kept_report(courses, codes, major_progress) ==
    [planned |-> courses, user_codes |-> codes, report |-> major_progress]

\* evaluate_major returned: the caller keeps the report, the locals are gone
KeepReport ==
    /\ pc = "done"
    /\ epc = "idle"
    /\ prev' = kept_report(planned, user_codes, report)
    /\ pc' = "idle"
    /\ major_key' = ""
    /\ user_codes' = {}
    /\ user_credits' = << >>
    /\ idx' = 0
    /\ section_results' = << >>
    /\ used_codes' = {}
    /\ major_credits_earned' = 0
    /\ counted' = << >>
    /\ report' = NoReport
    /\ UNCHANGED << planned, raised, major_requirements, nvars, svars, evars, cvars >>

\* the caller adds one more dict to the list it has just had evaluated
PlanCourse ==
    /\ pc = "idle"
    /\ prev # NoReport
    /\ prev.planned = planned
    /\ Len(planned) < MaxPlan
    /\ \E c \in PlanPool : planned' = Append(planned, c)
    /\ UNCHANGED << pc, major_key, locals, report, raised, major_requirements,
                    nvars, svars, ovars >>

NextPlan ==
    \/ PlanCourse
    \/ StartMajor
    \/ EvalSection
    \/ FinishMajor
    \/ KeepReport

SpecPlan == InitPlan /\ [][NextPlan]_vars

(***************************************************************************)
(* Properties of the catalog builder, the degree evaluation and the        *)
(* combined evaluation (SpecEvaluate)                                      *)
(***************************************************************************)
\* evaluate_major has been entered with a major key of the rule catalog
MajorEntered ==
    /\ pc \in {"sections", "done", "error"}
    /\ major_key \in DOMAIN MAJOR_REQUIREMENTS

\* record r has a code that is a non-empty string
HasUsableCode(r) ==
    /\ "code" \in DOMAIN r
    /\ r.code.py = "str"
    /\ r.code.s # ""

\* the credit value the record counts for: 0 when the credits value is
\* missing, null or not a number
StatedCredits(r) ==
    IF "credits" \notin DOMAIN r THEN 0
    ELSE IF r.credits.py \in {"None", "list"} THEN 0
    ELSE IF py_float(r.credits).exc = "none" THEN py_float(r.credits).v
    ELSE 0

\* the canonical code of record k of the planned list
CanonicalAt(k) == normalize_code(py_str(planned[k].code))

\* record k is the last record of the planned list with its canonical code
LastWithCode(k) ==
    \A j \in (k + 1)..Len(planned) : CanonicalAt(j) # CanonicalAt(k)

\* C11: build_user_catalog never raises because of a credits value; for
\* every canonical code of the input user_credits holds the float value of
\* the credits of the last record with that code, a missing, null or
\* non-numeric value counting as 0, and user_codes is the set of those codes.
C11_CreditsNeverRaise ==
    (MajorEntered /\ \A k \in 1..Len(planned) : HasUsableCode(planned[k])) =>
        /\ pc # "error"
        /\ raised = "none"
        /\ user_codes = {CanonicalAt(k) : k \in 1..Len(planned)}
        /\ DOMAIN user_credits = user_codes
        /\ \A k \in 1..Len(planned) :
              LastWithCode(k) => user_credits[CanonicalAt(k)] = StatedCredits(planned[k])

\* record r has no code key, a null code or an empty code
CodeMissing(r) ==
    \/ "code" \notin DOMAIN r
    \/ r.code.py = "None"
    \/ r.code = PyStr("")

\* no credits value of the planned list makes float() raise an exception
\* that the try lets through
CreditsCoercible ==
    \A k \in 1..Len(planned) : credits_value(planned[k]).exc = "none"

\* the codes of the taken lists of the section results
TakenCodes ==
    UNION {{section_results[i].taken[k].code : k \in 1..Len(section_results[i].taken)} :
              i \in 1..Len(section_results)}

\* C12: a planned course whose code is missing, null or empty is accepted
\* without an error, gets the empty string as its canonical code, matches
\* no rule item and earns no major credit.
C12_MissingCodeAccepted ==
    (MajorEntered /\ CreditsCoercible
        /\ \E k \in 1..Len(planned) : CodeMissing(planned[k])) =>
        /\ pc # "error"
        /\ raised = "none"
        /\ "" \in user_codes
        /\ user_codes = {"" : k \in {j \in 1..Len(planned) : CodeMissing(planned[j])}}
                        \cup {CanonicalAt(k) : k \in {j \in 1..Len(planned) :
                                                        ~CodeMissing(planned[j])}}
        /\ "" \notin TakenCodes
        /\ "" \notin UNION {counted[i] : i \in 1..Len(counted)}

\* the college key names a definition of DEGREE_REQUIREMENTS
KnownCollege(key) == key.py = "str" /\ key.s \in DOMAIN DEGREE_REQUIREMENTS

\* evaluate_degree has been entered and has ended
DegreeEnded == epc \in {"degree_done", "done", "error"} /\ pc # "error"

\* C13: evaluate_major with a major key outside the rule catalog, and
\* evaluate_degree or evaluate with a college key outside it, end with
\* KeyError and no report; a report is only ever built from the definition
\* the key names, never from a default.
C13_UnknownKeyFails ==
    /\ (pc # "idle" /\ major_key \notin DOMAIN MAJOR_REQUIREMENTS) =>
          /\ pc = "error"
          /\ raised = "KeyError"
          /\ report = NoReport
          /\ college_progress = NoReport
          /\ evaluation = NoReport
    /\ (DegreeEnded /\ ~KnownCollege(college_to_use)) =>
          /\ epc = "error"
          /\ raised = "KeyError"
          /\ college_progress = NoReport
          /\ evaluation = NoReport
    /\ report # NoReport =>
          /\ major_key \in DOMAIN MAJOR_REQUIREMENTS
          /\ report.id = MAJOR_REQUIREMENTS[major_key].id
          /\ report.major_credits_target = MAJOR_REQUIREMENTS[major_key].total_major_credits
    /\ college_progress # NoReport =>
          /\ KnownCollege(college_to_use)
          /\ college_progress.id = DEGREE_REQUIREMENTS[college_to_use.s].id
          /\ college_progress.total_degree_credits =
                 DEGREE_REQUIREMENTS[college_to_use.s].total_degree_credits

\* evaluate ended with KeyError on an unknown college after the major
\* evaluation had returned its report
C13_Witness ==
    /\ epc = "error"
    /\ raised = "KeyError"
    /\ pc = "done"
    /\ college_key = PyStr("NOPE")
    /\ college_to_use = PyStr("NOPE")
    /\ evaluation = NoReport

\* the sum of the stated credit values of the first m planned records
RECURSIVE SumStatedCredits(_)
SumStatedCredits(m) ==
    IF m = 0 THEN 0 ELSE StatedCredits(planned[m]) + SumStatedCredits(m - 1)

\* C14: evaluate_degree reports credits_completed as the sum of the coerced
\* credit value of every planned record, listed in a rule section or not
\* and repeated codes included, and credits_remaining as
\* max(target - credits_completed, 0), never negative.
C14_DegreeCredits ==
    college_progress # NoReport =>
        /\ college_progress.credits_completed = SumStatedCredits(Len(planned))
        /\ college_progress.credits_remaining =
              Max(college_progress.total_degree_credits
                      - college_progress.credits_completed, 0)
        /\ college_progress.credits_remaining >= 0

\* two records of a course outside every rule section take the total
\* beyond the target; the remaining credits are 0
C14_Witness ==
    /\ college_progress # NoReport
    /\ Len(planned) = 2
    /\ planned[1] = planned[2]
    /\ HasUsableCode(planned[1])
    /\ planned[1].code = PyStr("ART 100")
    /\ college_progress.credits_completed > college_progress.total_degree_credits
    /\ college_progress.credits_remaining = 0

\* C15: evaluate runs the major evaluation first and the degree evaluation
\* after it, against the college of the major definition when the
\* college_key argument is absent or empty and against the given key
\* otherwise; an unknown major key fails before any college lookup, and a
\* returned report holds both major_progress and college_progress.
C15_MajorThenDegree ==
    /\ (epc \in {"degree", "degree_done", "done"} /\ pc # "idle") =>
          /\ pc = "done"
          /\ report # NoReport
    /\ (pc = "done" /\ epc \in {"degree", "degree_done", "done", "error"}) =>
          college_to_use =
              IF college_key \in {PyNone, PyStr("")}
              THEN PyStr(MAJOR_REQUIREMENTS[major_key].college)
              ELSE college_key
    /\ (pc = "error" /\ epc # "idle") =>
          /\ college_to_use = PyNone
          /\ college_progress = NoReport
          /\ evaluation = NoReport
    /\ epc = "done" =>
          /\ DOMAIN evaluation = {"college_progress", "major_progress"}
          /\ evaluation.major_progress = report
          /\ evaluation.college_progress = college_progress
          /\ report # NoReport
          /\ college_progress # NoReport
          /\ college_progress.id = DEGREE_REQUIREMENTS[college_to_use.s].id

\* evaluate was called with an empty college key and returned the degree
\* progress of the college the major declares
C15_Witness ==
    /\ epc = "done"
    /\ college_key = PyStr("")
    /\ evaluation.college_progress.id = MAJOR_REQUIREMENTS[major_key].college
    /\ Len(evaluation.major_progress.sections) = Len(MAJOR_REQUIREMENTS[major_key].sections)

RECURSIVE RunSections(_, _, _)
RunSections(f, used, sections) ==
    IF f.pc # "sections" \/ f.idx > Len(sections) THEN f
    ELSE LET result == eval_section(sections[f.idx], f.user_codes, f.user_credits)
             fresh == result.credited_codes \ used
         IN  RunSections(frame_section(f, sections[f.idx], result, fresh),
                         used \cup fresh, sections)

RunMajor(f, call, major) ==
    IF f.pc # "sections" THEN f ELSE frame_finish(f, call, major)

\* the frame an evaluate call ends with when no other call runs, on the
\* rule catalog rules
RunAlone(call, rules) ==
    LET started == frame_start(NewFrame, call, rules)
    IN  IF started.pc # "sections" THEN started
        ELSE frame_degree(
                 RunMajor(RunSections(started, {}, rules[call.major_key].sections),
                          call, rules[call.major_key]),
                 call)

KnownType(section) == section.type \in {"ALL_OF", "ONE_OF", "N_OF"}

HasKnownType(section_report) == section_report.type \in {"ALL_OF", "ONE_OF", "N_OF"}

\* the rule catalog without its sections of unrecognised type
WithoutUnknown(rules) ==
    [k \in DOMAIN rules |->
        [rules[k] EXCEPT !.sections = SelectSeq(@, KnownType)]]

\* C16: a section whose type tag is none of ALL_OF, ONE_OF, N_OF does not
\* abort evaluate_major: its result has status unknown, empty taken and
\* missing and 0 credits, and the other sections and the major's credits
\* are what they are on the catalog without that section.
C16_UnknownSectionType ==
    \A c \in DOMAIN frames :
        frames[c].major_progress # NoReport =>
            LET sections == major_requirements[calls[c].major_key].sections
                got == frames[c].major_progress
                ref == RunAlone(calls[c], WithoutUnknown(major_requirements)).major_progress
            IN  /\ frames[c].raised = "none" \/ frames[c].pc = "raised"
                /\ Len(got.sections) = Len(sections)
                /\ \A i \in 1..Len(sections) :
                      /\ got.sections[i].id = sections[i].id
                      /\ ~KnownType(sections[i]) =>
                            /\ got.sections[i].status = "unknown"
                            /\ got.sections[i].taken = << >>
                            /\ got.sections[i].missing = << >>
                            /\ got.sections[i].credits_earned = 0
                /\ SelectSeq(got.sections, HasKnownType) = ref.sections
                /\ got.major_credits_earned = ref.major_credits_earned
                /\ got.remaining_credits = ref.remaining_credits

\* a section of unrecognised type that lists a course of the user comes
\* before a section that credits the course
C16_Witness ==
    /\ frames # << >>
    /\ frames[1].pc = "returned"
    /\ Len(frames[1].major_progress.sections) = 2
    /\ frames[1].major_progress.sections[1].status = "unknown"
    /\ frames[1].major_progress.sections[2].status = "complete"
    /\ frames[1].major_progress.sections[2].credits_earned > 0
    /\ frames[1].user_codes # {}

\* C17: evaluation calls share no mutable state: in every interleaving of
\* the calls each call ends with the report, or the exception, it ends with
\* when run alone on its arguments, and no step changes the rule catalog or
\* a caller's arguments.
C17_CallsIndependent ==
    /\ [](\A c \in DOMAIN frames :
            frames[c].pc \in {"returned", "raised"} =>
                frames[c] = RunAlone(calls[c], MAJOR_REQUIREMENTS))
    /\ [][major_requirements' = major_requirements /\ calls' = calls]_vars

\* one call has returned its report while another call, started before
\* that, is in the middle of its section loop on a course both have
C17_Witness ==
    /\ DOMAIN frames = 1..NumCalls
    /\ frames[1].pc = "returned"
    /\ frames[2].pc = "sections"
    /\ frames[2].idx > 6
    /\ frames[1].evaluation.major_progress.major_credits_earned > 0
    /\ "COMP SCI 407" \in frames[1].user_codes \cap frames[2].user_codes

(***************************************************************************)
(* Properties of the major orchestrator (Spec)                             *)
(***************************************************************************)
\* the sections of the major under evaluation
Sections == MAJOR_REQUIREMENTS[major_key].sections

\* the credited_codes the evaluator of section i returns
CreditedBy(i) == eval_section(Sections[i], user_codes, user_credits).credited_codes

\* section i lists the course with canonical code X
Lists(i, X) == \E s \in SectionSpellings(Sections[i]) : normalize_code(s) = X

\* the sum of the user's credit values over a set of codes
RECURSIVE SumUserCredits(_)
SumUserCredits(codes) ==
    IF codes = {} THEN 0
    ELSE LET c == CHOOSE x \in codes : TRUE
         IN  user_credits[c] + SumUserCredits(codes \ {c})

\* the sum of the credits_earned the first m section results report
RECURSIVE SumSectionCredits(_)
SumSectionCredits(m) ==
    IF m = 0 THEN 0
    ELSE section_results[m].credits_earned + SumSectionCredits(m - 1)

\* C1: in evaluate_major every canonical code adds its credit value to at
\* most one section's credits_earned, however many sections credit it;
\* major_credits_earned is the sum of the user's credit values over the
\* distinct codes some section credits, and the sum of the per-section
\* credits_earned.
C1_DedupCredits ==
    pc \in {"sections", "done"} =>
        LET m == Len(section_results)
        IN  /\ Len(counted) = m
            /\ \A c \in user_codes : Cardinality({i \in 1..m : c \in counted[i]}) <= 1
            /\ \A i \in 1..m :
                  /\ counted[i] \subseteq CreditedBy(i)
                  /\ section_results[i].credits_earned = SumUserCredits(counted[i])
            /\ UNION {counted[i] : i \in 1..m} = UNION {CreditedBy(i) : i \in 1..m}
            /\ major_credits_earned = SumUserCredits(UNION {CreditedBy(i) : i \in 1..m})
            /\ major_credits_earned = SumSectionCredits(m)
            /\ pc = "done" =>
                  /\ report.sections = section_results
                  /\ report.major_credits_earned = major_credits_earned

\* a finished evaluation in which two sections credit the same code
C1_Witness ==
    /\ pc = "done"
    /\ \E c \in user_codes :
          /\ Cardinality({i \in 1..Len(Sections) : c \in CreditedBy(i)}) >= 2
          /\ user_credits[c] > 0
    /\ report.major_credits_earned > 0

\* C2 as stated: a course the user has that two or more sections list adds
\* its credit to the first section that lists it and to no later one, for
\* every section type.
C2_FirstListingSection ==
    pc = "done" =>
        \A X \in user_codes :
            LET listing == {i \in 1..Len(Sections) : Lists(i, X)}
            IN  Cardinality(listing) >= 2 =>
                    LET first == CHOOSE i \in listing : \A j \in listing : i <= j
                    IN  /\ X \in counted[first]
                        /\ \A j \in listing : j > first => X \notin counted[j]

\* C2 amended: a course the user has adds its credit to the first section,
\* in declaration order, whose credited_codes contain it, and to no other
\* section; an ALL_OF section credits every course of the user it lists,
\* while an N_OF or ONE_OF section may list a course without crediting it.
C2_FirstCreditingSection ==
    pc = "done" =>
        \A X \in user_codes : \A i \in 1..Len(Sections) :
            /\ X \in counted[i] <=>
                  (X \in CreditedBy(i) /\ \A j \in 1..(i - 1) : X \notin CreditedBy(j))
            /\ report.sections[i].credits_earned = SumUserCredits(counted[i])
            /\ (Sections[i].type = "ALL_OF" /\ Lists(i, X)) => X \in CreditedBy(i)

\* an N_OF section lists a course of the user after n others the user
\* has; the course is credited in a later section
C2_Witness ==
    /\ pc = "done"
    /\ \E X \in user_codes : \E i \in 1..Len(Sections) : \E j \in (i + 1)..Len(Sections) :
          /\ Sections[i].type = "N_OF"
          /\ Lists(i, X)
          /\ X \notin counted[i]
          /\ X \in counted[j]

\* C3: every spelling of a course normalizes to one canonical code: each
\* alias key and its target normalize to the target, the rule catalog's
\* spelling "COMP SCI/E C E 354" normalizes to "COMP SCI 354", and so a
\* planned course "COMP SCI 354" is reported as taken in basic_cs of CS_LS.
C3_AliasEquivalence ==
    (pc = "done" /\ major_key = "CS_LS" /\ "COMP SCI 354" \in user_codes) =>
        /\ \A a \in DOMAIN ALIASES :
              /\ normalize_code(a) = ALIASES[a]
              /\ normalize_code(ALIASES[a]) = ALIASES[a]
        /\ normalize_code("COMP SCI/E C E 354") = "COMP SCI 354"
        /\ \E k \in 1..Len(report.sections[1].taken) :
              report.sections[1].taken[k].code = "COMP SCI 354"

(***************************************************************************)
(* Properties of re-evaluation after adding a course (SpecPlan)            *)
(***************************************************************************)
\* evaluate_major has returned on the kept list plus one more record
Reevaluated ==
    /\ pc = "done"
    /\ prev # NoReport
    /\ Len(planned) = Len(prev.planned) + 1
    /\ SubSeq(planned, 1, Len(prev.planned)) = prev.planned

\* the record that was added, its canonical code and its stated credits
Added == planned[Len(planned)]

AddedCode == normalize_code(py_str(Added.code))

AddedIsNew == AddedCode \notin prev.user_codes

AddedNonNegative == Added.credits.py = "int" /\ Added.credits.n >= 0

\* the added course is listed in a section where the evaluator chooses
\* which courses to credit: a ONE_OF or an N_OF section
AddedInChoice ==
    \E i \in 1..Len(Sections) :
        /\ Sections[i].type \in {"ONE_OF", "N_OF"}
        /\ Lists(i, AddedCode)

CreditsKept ==
    /\ report.major_credits_earned >= prev.report.major_credits_earned
    /\ report.remaining_credits <= prev.report.remaining_credits

\* C18 as stated: adding one planned course with a new canonical code and
\* non-negative credits never decreases major_credits_earned of CS_LS and
\* never increases remaining_credits.
C18_CreditsMonotone ==
    (Reevaluated /\ major_key = "CS_LS" /\ AddedIsNew /\ AddedNonNegative)
        => CreditsKept

\* C18: adding one planned course with a new canonical code and
\* non-negative credits that no ONE_OF and no N_OF section of CS_LS lists
\* never decreases major_credits_earned and never increases
\* remaining_credits.
C18_CreditsMonotoneOutsideChoice ==
    (Reevaluated /\ major_key = "CS_LS" /\ AddedIsNew /\ AddedNonNegative
        /\ ~AddedInChoice)
        => CreditsKept

\* a course of the ALL_OF section is added to a list that holds courses of
\* a ONE_OF and of an N_OF section, and the major's credits grow by it
C18_Witness ==
    /\ Reevaluated
    /\ major_key = "CS_LS"
    /\ AddedIsNew
    /\ AddedCode = "COMP SCI 400"
    /\ ~AddedInChoice
    /\ {"MATH 171", "COMP SCI 407"} \subseteq prev.user_codes
    /\ report.major_credits_earned = prev.report.major_credits_earned + 4

StatusRank(status) ==
    IF status = "complete" THEN 2
    ELSE IF status = "in_progress" THEN 1
    ELSE 0

Evaluated(type) == sstep = "evaluated" /\ sec.type = type

HasCode(item) == normalize_code(item.code) \in ucodes

\* the k-th element of the subsequence of the items that satisfy Keep is
\* the item at the position whose rank among the kept positions is k
IsOrderedSelection(selected, items, Keep(_)) ==
    LET kept == {k \in 1..Len(items) : Keep(items[k])}
        Rank(k) == Cardinality({j \in kept : j <= k})
    IN  /\ Len(selected) = Cardinality(kept)
        /\ \A k \in kept : selected[Rank(k)] = CourseRef(items[k])

IsTaken(selected, items) == IsOrderedSelection(selected, items, HasCode)

NotHasCode(item) == ~HasCode(item)

IsMissing(selected, items) == IsOrderedSelection(selected, items, NotHasCode)

\* the first r elements of list
IsPrefix(prefix, list, r) ==
    /\ Len(prefix) = Min(Max(r, 0), Len(list))
    /\ \A k \in 1..Len(prefix) : prefix[k] = list[k]

\* an option of a ONE_OF section is fully satisfied
Satisfied(opt) ==
    \/ opt.type = "COURSE" /\ HasCode(opt)
    \/ opt.type = "ALL_OF" /\ \A k \in 1..Len(opt.items) : HasCode(opt.items[k])

SatisfiedOptions == {k \in 1..Len(sec.options) : Satisfied(sec.options[k])}

\* the number of items of an option the user has; a COURSE option that is
\* not satisfied counts 0
MatchCount(opt) ==
    IF opt.type = "ALL_OF"
    THEN Cardinality({k \in 1..Len(opt.items) : HasCode(opt.items[k])})
    ELSE 0

\* the courses an option lists
OptionItems(opt) == IF opt.type = "COURSE" THEN << opt >> ELSE opt.items

\* C5: eval_one_of returns complete iff some option is fully satisfied,
\* and then taken, credited_codes and selected_option are those of the
\* first fully satisfied option in declaration order, and of it alone.
C5_OneOfFirstSatisfied ==
    Evaluated("ONE_OF") =>
        /\ res.status = "complete" <=> SatisfiedOptions # {}
        /\ SatisfiedOptions # {} =>
              LET first == CHOOSE k \in SatisfiedOptions :
                               \A j \in SatisfiedOptions : k <= j
                  opt   == sec.options[first]
                  items == OptionItems(opt)
              IN  /\ res.taken = CourseRefs(items)
                  /\ res.missing = << >>
                  /\ res.credited_codes = {normalize_code(items[k].code) : k \in 1..Len(items)}
                  /\ res.selected_option =
                        IF opt.type = "COURSE"
                        THEN [type |-> "COURSE", code |-> normalize_code(opt.code)]
                        ELSE [type |-> "ALL_OF",
                              items |-> [k \in 1..Len(items) |-> normalize_code(items[k].code)]]

\* options [COURSE A, ALL_OF [B, C]] with a user who has A, B and C: only
\* A is credited although the later option matches more courses
C5_Witness ==
    /\ Evaluated("ONE_OF")
    /\ Len(sec.options) = 2
    /\ sec.options[1].type = "COURSE"
    /\ sec.options[2].type = "ALL_OF"
    /\ Len(sec.options[2].items) = 2
    /\ Satisfied(sec.options[1])
    /\ Satisfied(sec.options[2])
    /\ ucodes = {"A", "B", "C"}
    /\ res.credited_codes = {"A"}

\* C6: when no option is fully satisfied, eval_one_of reports the option
\* with the most matched items, the first declared among equals (a COURSE
\* option counting 0); the status is missing when that count is 0 or there
\* is no option, in_progress when it is positive; taken, missing and
\* credited_codes are those of the reported option.
C6_OneOfBestPartial ==
    (Evaluated("ONE_OF") /\ SatisfiedOptions = {}) =>
        IF Len(sec.options) = 0
        THEN /\ res.status = "missing"
             /\ res.taken = << >>
             /\ res.missing = << >>
             /\ res.credited_codes = {}
             /\ "selected_option" \notin DOMAIN res
        ELSE LET count(k) == MatchCount(sec.options[k])
                 best == CHOOSE k \in 1..Len(sec.options) :
                            /\ \A j \in 1..Len(sec.options) : count(j) <= count(k)
                            /\ \A j \in 1..(k - 1) : count(j) < count(k)
                 opt   == sec.options[best]
                 items == OptionItems(opt)
             IN  /\ res.status = (IF count(best) = 0 THEN "missing" ELSE "in_progress")
                 /\ IsTaken(res.taken, items)
                 /\ IsMissing(res.missing, items)
                 /\ res.credited_codes = {res.taken[k].code : k \in 1..Len(res.taken)}
                 /\ res.selected_option.type = opt.type

\* two partly matched ALL_OF options with the same count: the first one
\* is reported
C6_Witness ==
    /\ Evaluated("ONE_OF")
    /\ SatisfiedOptions = {}
    /\ Len(sec.options) = 2
    /\ MatchCount(sec.options[1]) = 1
    /\ MatchCount(sec.options[2]) = 1
    /\ Len(sec.options[1].items) # Len(sec.options[2].items)
    /\ res.status = "in_progress"
    /\ Len(res.taken) + Len(res.missing) = Len(sec.options[1].items)

\* C7 as stated: complete iff missing is empty, in_progress iff taken and
\* missing are both non-empty, missing iff taken is empty, an empty items
\* list included.
C7_AllOfStatusAsStated ==
    Evaluated("ALL_OF") =>
        /\ res.status = "complete" <=> res.missing = << >>
        /\ res.status = "in_progress" <=> (res.taken # << >> /\ res.missing # << >>)
        /\ res.status = "missing" <=> res.taken = << >>

\* C7 amended: complete iff missing is empty, in_progress iff taken and
\* missing are both non-empty, missing iff taken is empty and missing is
\* not; a section with an empty items list is complete.
C7_AllOfStatus ==
    Evaluated("ALL_OF") =>
        /\ IsTaken(res.taken, sec.items)
        /\ IsMissing(res.missing, sec.items)
        /\ res.status = "complete" <=> res.missing = << >>
        /\ res.status = "in_progress" <=> (res.taken # << >> /\ res.missing # << >>)
        /\ res.status = "missing" <=> (res.taken = << >> /\ res.missing # << >>)

\* an ALL_OF section with no items was evaluated
C7_Witness ==
    /\ Evaluated("ALL_OF")
    /\ sec.items = << >>
    /\ res.taken = << >>
    /\ res.status = "complete"

\* C8: eval_all_of splits the items, in declaration order, into taken
\* (code among the user's codes) and missing (the others); credited_codes
\* is the set of taken codes; credits_earned adds, for each taken course,
\* the user's credit value, or the item's declared credits (else 0) when
\* the user catalog has no credit entry for the code.
C8_AllOfPartition ==
    Evaluated("ALL_OF") =>
        /\ IsTaken(res.taken, sec.items)
        /\ IsMissing(res.missing, sec.items)
        /\ res.credited_codes = {res.taken[k].code : k \in 1..Len(res.taken)}
        /\ res.credits_earned =
              SumSeq([k \in 1..Len(res.taken) |->
                        IF res.taken[k].code \in DOMAIN ucredits
                        THEN ucredits[res.taken[k].code]
                        ELSE IF "credits" \in DOMAIN res.taken[k]
                             THEN res.taken[k].credits ELSE 0])

\* items [A, B], the user has both, a credit entry only for A: complete,
\* the user's 2 credits for A plus the 4 credits B declares
C8_Witness ==
    /\ Evaluated("ALL_OF")
    /\ sec.items = << [code |-> "A", credits |-> 3], [code |-> "B", credits |-> 4] >>
    /\ ucodes = {"A", "B"}
    /\ DOMAIN ucredits = {"A"}
    /\ res.status = "complete"
    /\ res.credits_earned = 6

\* the positions of the N_OF items the user has, and their rank
PresentAt == {k \in 1..Len(sec.items) : HasCode(sec.items[k])}

PresentRank(k) == Cardinality({j \in PresentAt : j <= k})

\* C9: eval_n_of credits exactly the first min(n, |present|) present items
\* in declaration order, so credited_codes has at most n elements, and
\* n_completed = min(|present|, n).
C9_NOfCap ==
    Evaluated("N_OF") =>
        /\ IsTaken(res.taken, sec.items)
        /\ res.credited_codes =
              {normalize_code(sec.items[k].code) :
                  k \in {j \in PresentAt : PresentRank(j) <= sec.n}}
        /\ Cardinality(res.credited_codes) <= sec.n
        /\ res.n_completed = Min(Cardinality(PresentAt), sec.n)
        /\ res.n_required = sec.n

\* n = 2, three distinct items, the user has all three: the first two are
\* credited
C9_Witness ==
    /\ Evaluated("N_OF")
    /\ sec.n = 2
    /\ Len(sec.items) = 3
    /\ Cardinality(PresentAt) = 3
    /\ ucodes = {"A", "B", "C"}
    /\ Cardinality(res.credited_codes) = 2
    /\ res.credited_codes = {normalize_code(sec.items[1].code), normalize_code(sec.items[2].code)}
    /\ res.n_completed = 2

\* C10: with remaining_needed = max(n - |present|, 0), missing is the
\* first remaining_needed absent items in declaration order; the status is
\* complete iff remaining_needed = 0, in_progress iff present is non-empty
\* and remaining_needed > 0, and missing otherwise.
C10_NOfMissing ==
    Evaluated("N_OF") =>
        LET remaining_needed == Max(sec.n - Cardinality(PresentAt), 0)
            absent == missing_of(CourseRefs(sec.items), ucodes)
        IN  /\ IsMissing(absent, sec.items)
            /\ IsPrefix(res.missing, absent, remaining_needed)
            /\ res.status = "complete" <=> remaining_needed = 0
            /\ res.status = "in_progress" <=> (PresentAt # {} /\ remaining_needed > 0)
            /\ res.status = "missing" <=> (PresentAt = {} /\ remaining_needed > 0)

\* one course still needed, two absent: only the first absent one is
\* reported
C10_Witness ==
    /\ Evaluated("N_OF")
    /\ sec.n = 2
    /\ Cardinality(PresentAt) = 1
    /\ Len(sec.items) = 3
    /\ Len(res.missing) = 1
    /\ res.status = "in_progress"

====
